---- MODULE Spec2Model ----
(***************************************************************************)
(* The similarity index engine of qadam: TextbookIndex of                  *)
(* backend/ai_service.py and search_similar_texts of backend/ai_helpers.py.*)
(*                                                                         *)
(* A text is a sequence of raw word tokens.  Real numbers are fixed-point  *)
(* integers in thousandths (1000 stands for 1.0).  Python's 0-based        *)
(* positions are 1-based here; where a position is returned to the caller  *)
(* (the default document id) it is converted back to 0-based.              *)
(***************************************************************************)
EXTENDS Integers, Sequences, FiniteSets, TLC

\* ------------------------------------------------------------------ bounds
MaxChapters == 2

\* ------------------------------------------------------- program constants
MaxFeatures == 1000

\* ------------------------------------------------------------------ inputs
StopWords == {"the"}

ChapterPool ==
    { [name |-> "Ch1", text |-> <<"water">>],
      [name |-> "Ch2", text |-> <<"Plants", "the", "water">>],
      [name |-> "Ch3", text |-> <<"the">>],
      [name |-> "Ch4", text |-> <<"the", "water">>] }

QueryPool == { <<"water">>, <<"Plants", "the", "water">>, <<"gravity">> }

TopKs == {0 - 1, 0, 1, MaxChapters + 1}

\* the questions asked of the similarity helpers: the queries above and one
\* that shares a term with some of the texts only
QuestionPool == QueryPool \cup { <<"Plants">> }

\* the top_k map_question_to_chapters asks for
MapTopK == 3

TextbookIds == {"tb1"}

GoodPath == "vector_indices/tb1/index.pkl"
BadPath == "missing_dir/index.pkl"
Paths == {GoodPath, BadPath}

\* the top_k of the searches that run as threads
ReaderTopKs == {1, MaxChapters + 1}

\* the threads that search an index shared read-only
ReaderIds == {"r1", "r2"}

\* the most pages a textbook PDF has
MaxPages == 11

\* the pages the 'auto' policy puts in one chapter
ChunkPages == 5

PdfPath == "uploads/textbook.pdf"
MissingPdf == "uploads/missing.pdf"
PdfPaths == {PdfPath, MissingPdf}

\* the words printed on the pages of a textbook, repeating from page to page
PageWords == <<"cell", "leaf", "root", "stem">>

\* the textbook PDFs: up to MaxPages pages of text, of which at most one is
\* blank (a page that get_text finds no text on)
PdfPool ==
    { [i \in 1..n |->
          IF i = blank THEN <<>>
          ELSE <<PageWords[((i - 1) % Len(PageWords)) + 1]>>] :
      n \in 0..MaxPages, blank \in 0..MaxPages }

ChapterDetections == {"auto", "page", "heading"}

\* argsort's default kind is an unstable sort: the relative order of equal
\* keys in its ascending output is unspecified.  One process uses one build of
\* the library, which is a deterministic function of its input.
TieOrders == {"ascending", "descending"}

\* ----------------------------------------------------------------- helpers
Range(s) == {s[i] : i \in DOMAIN s}

Min(a, b) == IF a < b THEN a ELSE b
Max(a, b) == IF a > b THEN a ELSE b

Reverse(s) == [i \in 1..Len(s) |-> s[Len(s) + 1 - i]]

\* the sum of the first n entries of a sequence
RECURSIVE SumTo(_, _)
SumTo(s, n) == IF n = 0 THEN 0 ELSE s[n] + SumTo(s, n - 1)

Sum(s) == SumTo(s, Len(s))

\* the concatenation of the first n sequences of a sequence of sequences
RECURSIVE Flatten(_, _)
Flatten(ss, n) == IF n = 0 THEN <<>> ELSE Flatten(ss, n - 1) \o ss[n]

\* the distinct entries among the first n of a sequence, in order of first
\* occurrence
RECURSIVE Uniq(_, _)
Uniq(s, n) ==
    IF n = 0 THEN <<>>
    ELSE IF \E j \in 1..(n - 1) : s[j] = s[n] THEN Uniq(s, n - 1)
    ELSE Append(Uniq(s, n - 1), s[n])

\* Newton's iteration downwards from a start that is not below the root
RECURSIVE ISqrtIter(_, _)
ISqrtIter(n, x) ==
    LET y == (x + n \div x) \div 2
    IN IF y >= x THEN x ELSE ISqrtIter(n, y)

\* floor of the square root
ISqrt(n) ==
    IF n = 0 THEN 0
    ELSE ISqrtIter(n, IF n <= 1048576 THEN 1024
                      ELSE IF n <= 67108864 THEN 8192 ELSE 46341)

\* natural logarithm in thousandths
LnMilli(k) ==
    CASE k = 1 -> 0
      [] k = 2 -> 693
      [] k = 3 -> 1099
      [] k = 4 -> 1386
      [] k = 5 -> 1609
      [] k = 6 -> 1792
      [] k = 7 -> 1946
      [] k = 8 -> 2079
      [] k = 9 -> 2197
      [] k = 10 -> 2303
      [] k = 11 -> 2398
      [] k = 12 -> 2485
      [] k = 13 -> 2565
      [] k = 14 -> 2639
      [] k = 15 -> 2708
      [] k = 16 -> 2773

\* ---------------------------------------------------- TfidfVectorizer model
Lower(tok) == IF tok = "Plants" THEN "plants" ELSE tok

IsContent(tok) == tok \notin StopWords

\* lower-case, drop stop words
Tokens(text) == SelectSeq([i \in 1..Len(text) |-> Lower(text[i])], IsContent)

\* ngram_range=(1, 2): the unigrams followed by the bigrams of adjacent tokens
Analyze(text) ==
    LET toks == Tokens(text)
    IN [i \in 1..Len(toks) |-> <<toks[i]>>]
       \o [i \in 1..(Max(Len(toks), 1) - 1) |-> <<toks[i], toks[i + 1]>>]

CountIn(term, ng) == Cardinality({i \in DOMAIN ng : ng[i] = term})

\* the analysed documents of a corpus
AnalyzeAll(texts) == [i \in 1..Len(texts) |-> Analyze(texts[i])]

\* the terms of the corpus, one column each.  (The library numbers the
\* columns in alphabetical order of the terms; every use of a row here is a
\* norm or a dot product, which no renumbering of the columns changes.)
AllTerms(docs) ==
    LET all == Flatten(docs, Len(docs)) IN Uniq(all, Len(all))

TotalCount(term, docs) == Sum([i \in 1..Len(docs) |-> CountIn(term, docs[i])])

\* max_features: keep the terms with the highest total count in the corpus
LimitFeatures(terms, docs) ==
    IF Len(terms) <= MaxFeatures THEN terms
    ELSE LET kept ==
               CHOOSE S \in SUBSET Range(terms) :
                  /\ Cardinality(S) = MaxFeatures
                  /\ \A t \in S, u \in Range(terms) \ S :
                        TotalCount(t, docs) >= TotalCount(u, docs)
             IsKept(t) == t \in kept
         IN SelectSeq(terms, IsKept)

Vocabulary(docs) == LimitFeatures(AllTerms(docs), docs)

DocFreq(term, docs) ==
    Cardinality({i \in DOMAIN docs : \E j \in DOMAIN docs[i] : docs[i][j] = term})

\* mutant: the idf without the added 1, which is 0 for a term of every
\* document
IdfPlain(term, docs) ==
    LnMilli(1 + Len(docs)) - LnMilli(1 + DocFreq(term, docs))

\* smooth idf: ln((1 + n) / (1 + df)) + 1
Idf(term, docs) ==
    LnMilli(1 + Len(docs)) - LnMilli(1 + DocFreq(term, docs)) + 1000

NoVectorizer == [kind |-> "None"]

NewVectorizer == [kind |-> "TfidfVectorizer", fitted |-> FALSE]

\* fit raises ValueError (empty vocabulary) when no term is left
CanFit(texts) == Vocabulary(AnalyzeAll(texts)) # <<>>

\* the fitted vectorizer: vocabulary_ and idf_, by column
FitDocs(docs) ==
    LET vocabulary == Vocabulary(docs)
    IN [kind |-> "TfidfVectorizer", fitted |-> TRUE,
        vocabulary |-> vocabulary,
        idf |-> [c \in 1..Len(vocabulary) |-> Idf(vocabulary[c], docs)]]

Fit(texts) == FitDocs(AnalyzeAll(texts))

SumSq(v) == Sum([c \in 1..Len(v) |-> v[c] * v[c]])

\* row-wise l2 normalisation; a zero row is left as it is
L2Normalize(v) ==
    LET n == ISqrt(SumSq(v))
        d == IF n = 0 THEN 1 ELSE n
    IN [c \in 1..Len(v) |-> (v[c] * 1000) \div d]

\* the row of an analysed text: tf * idf by column, l2-normalised
TfidfRow(vec, ng) ==
    L2Normalize([c \in 1..Len(vec.vocabulary) |->
                    CountIn(vec.vocabulary[c], ng) * vec.idf[c]])

\* transform of one text
Transform(vec, text) == TfidfRow(vec, Analyze(text))

\* fit_transform: the fitted vectorizer and the rows of the corpus
FitTransform(texts) ==
    LET docs == AnalyzeAll(texts)
        vec == FitDocs(docs)
    IN [vectorizer |-> vec,
        rows |-> [i \in 1..Len(docs) |-> TfidfRow(vec, docs[i])]]

Dot(u, v) == Sum([c \in 1..Len(u) |-> u[c] * v[c]])

\* mutant: a query row of magnitude zero is divided by its magnitude, which
\* makes every similarity undefined (written -1)
CosineSimilarityUnguarded(q, docs) ==
    LET qn == L2Normalize(q)
    IN [i \in 1..Len(docs) |->
           IF SumSq(q) = 0 THEN 0 - 1
           ELSE Dot(qn, L2Normalize(docs[i])) \div 1000]

\* sklearn cosine_similarity of one query row against the document rows:
\* both sides are normalised again, then multiplied
CosineSimilarity(q, docs) ==
    LET qn == L2Normalize(q)
    IN [i \in 1..Len(docs) |-> Dot(qn, L2Normalize(docs[i])) \div 1000]

\* ------------------------------------------------------------ numpy model
\* np.argsort: the positions ordered by ascending key
ArgSort(keys, tie) ==
    LET n == Len(keys)
        Before(a, b) ==
            \/ keys[a] < keys[b]
            \/ /\ keys[a] = keys[b]
               /\ IF tie = "ascending" THEN a < b ELSE a > b
    IN [p \in 1..n |->
          CHOOSE a \in 1..n : Cardinality({b \in 1..n : Before(b, a)}) = p - 1]

\* s[:k]
PySliceTo(s, k) ==
    IF k >= 0 THEN SubSeq(s, 1, Min(k, Len(s)))
    ELSE SubSeq(s, 1, Max(Len(s) + k, 0))

\* mutant: the ascending order is not reversed
TopIndicesAscending(sims, tie, top_k) == PySliceTo(ArgSort(sims, tie), top_k)

\* np.argsort(similarities)[::-1][:top_k]
TopIndices(sims, tie, top_k) == PySliceTo(Reverse(ArgSort(sims, tie)), top_k)

\* ---------------------------------------------------------- TextbookIndex
NewIndex(textbook_id) ==
    [textbook_id |-> textbook_id,
     chapters |-> <<>>,
     chapter_embeddings |-> <<>>,
     vectorizer |-> NoVectorizer]

ChapterTexts(idx) == [i \in 1..Len(idx.chapters) |-> idx.chapters[i].text]

ChapterNames(idx) == [i \in 1..Len(idx.chapters) |-> idx.chapters[i].name]

\* mutant: the chapter is inserted at the front instead of appended
add_chapter_front(idx, chapter_name, chapter_text) ==
    [idx EXCEPT !.chapters =
        <<[name |-> chapter_name, text |-> chapter_text]>> \o @]

add_chapter(idx, chapter_name, chapter_text) ==
    [idx EXCEPT !.chapters =
        Append(@, [name |-> chapter_name, text |-> chapter_text])]

\* the try block of build_index: the index after it, what it returns, and
\* the exception its handler caught
build_index_try(idx) ==
    LET texts == ChapterTexts(idx)
        fitted == FitTransform(texts)
    IN IF CanFit(texts)
       THEN [index |-> [idx EXCEPT
                 !.vectorizer = fitted.vectorizer,
                 !.chapter_embeddings = fitted.rows],
             ret |-> TRUE, caught |-> "none"]
       ELSE \* the new vectorizer is assigned before fit_transform raises
            [index |-> [idx EXCEPT !.vectorizer = NewVectorizer],
             ret |-> FALSE, caught |-> "ValueError"]

\* mutant: no guard for an empty chapter list
build_index_noguard(idx) == build_index_try(idx)

\* mutant: a built index is extended with the vectors of the new chapters
\* under the model it already has, instead of being refitted
build_index_incremental(idx) ==
    IF idx.chapters = <<>>
    THEN [index |-> idx, ret |-> FALSE, caught |-> "none"]
    ELSE IF idx.vectorizer.kind = "None" \/ ~idx.vectorizer.fitted
    THEN build_index_try(idx)
    ELSE [index |-> [idx EXCEPT !.chapter_embeddings =
                        [i \in 1..Len(idx.chapters) |->
                            Transform(idx.vectorizer, idx.chapters[i].text)]],
          ret |-> TRUE, caught |-> "none"]

\* the index after build_index, what it returns, and the exception caught
build_index(idx) ==
    IF idx.chapters = <<>>
    THEN [index |-> idx, ret |-> FALSE, caught |-> "none"]
    ELSE build_index_try(idx)

Similarities(idx, query) ==
    CosineSimilarity(Transform(idx.vectorizer, query), idx.chapter_embeddings)

SearchIndices(idx, tie, query, top_k) ==
    TopIndices(Similarities(idx, query), tie, top_k)

\* the guard of search
NotBuilt(idx) ==
    idx.vectorizer.kind = "None" \/ Len(idx.chapter_embeddings) = 0

\* mutant: the p-th entry carries the score of the p-th chapter
SearchResultsScoreByRank(idx, sims, top) ==
    [p \in 1..Len(top) |->
        [chapter_name |-> idx.chapters[top[p]].name,
         chapter_text |-> idx.chapters[top[p]].text,
         similarity_score |-> sims[p]]]

\* the results for the chapters at the positions top
SearchResults(idx, sims, top) ==
    [p \in 1..Len(top) |->
        [chapter_name |-> idx.chapters[top[p]].name,
         chapter_text |-> idx.chapters[top[p]].text,
         similarity_score |-> sims[top[p]]]]

\* mutant: chapters that score 0 are left out of the results
search_try_nonzero(idx, tie, query, top_k) ==
    IF ~idx.vectorizer.fitted
    THEN <<>>
    ELSE LET sims == Similarities(idx, query)
             top == SearchIndices(idx, tie, query, top_k)
             IsHit(i) == sims[i] > 0
         IN SearchResults(idx, sims, SelectSeq(top, IsHit))

\* mutant: the first top_k chapters in corpus order, not ranked by score
search_try_unranked(idx, tie, query, top_k) ==
    IF ~idx.vectorizer.fitted
    THEN <<>>
    ELSE LET sims == Similarities(idx, query)
             top == PySliceTo([i \in 1..Len(sims) |-> i], top_k)
         IN SearchResults(idx, sims, top)

\* the try block of search
search_try(idx, tie, query, top_k) ==
    IF ~idx.vectorizer.fitted
    THEN <<>>                                   \* NotFittedError, caught
    ELSE LET sims == Similarities(idx, query)
             top == SearchIndices(idx, tie, query, top_k)
         IN IF \E p \in DOMAIN top : top[p] > Len(idx.chapters)
            THEN <<>>                           \* IndexError, caught
            ELSE SearchResults(idx, sims, top)

\* mutant: an index that is not built is built on the first search
search_lazy_build(idx, tie, query, top_k) ==
    LET b == IF NotBuilt(idx) THEN build_index(idx).index ELSE idx
    IN IF NotBuilt(b) THEN <<>> ELSE search_try(b, tie, query, top_k)

search(idx, tie, query, top_k) ==
    IF NotBuilt(idx) THEN <<>> ELSE search_try(idx, tie, query, top_k)

\* ------------------------------------------------------------- exceptions
\* Python's None
None == [kind |-> "None"]

\* mutant: there is no handler, what the try block raises reaches the caller
EscapesUnhandled(exc) == exc

\* `except Exception as e`: the exception that reaches the caller when the
\* try block raises exc ("none": it is handled)
Escapes(exc) == "none"

\* a str argument
Str(text) == [kind |-> "str", value |-> text]

\* the exception the try block of search raises, for a query that is a str
\* or None
search_try_raises(idx, tie, query, top_k) ==
    IF ~idx.vectorizer.fitted THEN "NotFittedError"
    ELSE IF query.kind = "None" THEN "AttributeError"
    ELSE LET top == SearchIndices(idx, tie, query.value, top_k)
         IN IF \E p \in DOMAIN top : top[p] > Len(idx.chapters)
            THEN "IndexError"
            ELSE "none"

\* search for any argument: the value returned and the exception caught
search_call(idx, tie, query, top_k) ==
    IF NotBuilt(idx) THEN [ret |-> <<>>, caught |-> "none"]
    ELSE LET exc == search_try_raises(idx, tie, query, top_k)
         IN IF exc # "none" THEN [ret |-> <<>>, caught |-> exc]
            ELSE [ret |-> search_try(idx, tie, query.value, top_k),
                  caught |-> "none"]

\* ---------------------------------------------------------- index_textbook
\* the pages of the PDF at a path, numbered from 1; none when it cannot be
\* opened
extract_pages_from_pdf(fs, pdf_path) ==
    IF pdf_path \in DOMAIN fs
    THEN [n \in 1..Len(fs[pdf_path]) |->
             [page_number |-> n, text |-> fs[pdf_path][n]]]
    ELSE <<>>                                   \* exception, caught

\* f"Page {n}"
PageName(n) == [format |-> "Page {}", number |-> n]

\* f"Section {k} (Pages {first}-{last})"
SectionName(k, first, last) ==
    [format |-> "Section {} (Pages {}-{})", number |-> k,
     first |-> first, last |-> last]

\* "\n".join of the texts of some pages: their tokens, in order
JoinTexts(pages) ==
    Flatten([j \in 1..Len(pages) |-> pages[j].text], Len(pages))

\* pages[i:i+5] for a 0-based i within the list
PySlice(s, i, j) == SubSeq(s, i + 1, Min(j, Len(s)))

\* mutant: the page branch numbers the chapters from 0
PageChaptersFromZero(pages) ==
    [i \in 1..Len(pages) |->
        [name |-> PageName(i - 1), text |-> pages[i].text]]

\* the chapters of the 'page' branch: one for each page
PageChapters(pages) ==
    [i \in 1..Len(pages) |->
        [name |-> PageName(pages[i].page_number), text |-> pages[i].text]]

\* mutant: the name of a section gives the end of its window as last page
AutoChaptersWindowEnd(pages) ==
    [k \in 1..((Len(pages) + ChunkPages - 1) \div ChunkPages) |->
        LET i == (k - 1) * ChunkPages
            chunk_pages == PySlice(pages, i, i + ChunkPages)
        IN [name |-> SectionName(i \div ChunkPages + 1,
                                 chunk_pages[1].page_number, i + ChunkPages),
            text |-> JoinTexts(chunk_pages)]]

\* the chapters of the 'auto' branch: one for each i of
\* range(0, len(pages), 5), in order
AutoChapters(pages) ==
    [k \in 1..((Len(pages) + ChunkPages - 1) \div ChunkPages) |->
        LET i == (k - 1) * ChunkPages
            chunk_pages == PySlice(pages, i, i + ChunkPages)
        IN [name |-> SectionName(i \div ChunkPages + 1,
                                 chunk_pages[1].page_number,
                                 chunk_pages[Len(chunk_pages)].page_number),
            text |-> JoinTexts(chunk_pages)]]

\* add_chapter for the first n of some chapters, in order
RECURSIVE add_chapters(_, _, _)
add_chapters(idx, chapters, n) ==
    IF n = 0 THEN idx
    ELSE add_chapter(add_chapters(idx, chapters, n - 1),
                     chapters[n].name, chapters[n].text)

\* mutant: the heading policy falls back to the windows of 'auto'
index_textbook_heading_auto(fs, pdf_path, textbook_id, chapter_detection) ==
    LET pages == extract_pages_from_pdf(fs, pdf_path)
        chapters == IF chapter_detection = "page" THEN PageChapters(pages)
                    ELSE AutoChapters(pages)
    IN build_index(add_chapters(NewIndex(textbook_id), chapters,
                                Len(chapters))).index

\* the index index_textbook returns
index_textbook(fs, pdf_path, textbook_id, chapter_detection) ==
    LET pages == extract_pages_from_pdf(fs, pdf_path)
        chapters == IF chapter_detection = "page" THEN PageChapters(pages)
                    ELSE IF chapter_detection = "auto" THEN AutoChapters(pages)
                    ELSE PageChapters(pages)
    IN build_index(add_chapters(NewIndex(textbook_id), chapters,
                                Len(chapters))).index

\* ----------------------------------------------------------- persistence
\* pickle of the dict built by save: its items in insertion order
Pickle(idx) ==
    << <<"textbook_id", idx.textbook_id>>,
       <<"chapters", idx.chapters>>,
       <<"chapter_embeddings", idx.chapter_embeddings>>,
       <<"vectorizer", idx.vectorizer>> >>

\* pickle.load: the dict of the items
Unpickle(blob) ==
    [k \in {blob[i][1] : i \in DOMAIN blob} |->
        blob[CHOOSE i \in DOMAIN blob : blob[i][1] = k][2]]

\* mutant: the fitted model is not restored
load_no_vectorizer(blob) ==
    LET data == Unpickle(blob)
    IN [NewIndex(data["textbook_id"]) EXCEPT
           !.chapters = data["chapters"],
           !.chapter_embeddings = data["chapter_embeddings"]]

\* the instance load builds from a blob
load(blob) ==
    LET data == Unpickle(blob)
    IN [NewIndex(data["textbook_id"]) EXCEPT
           !.chapters = data["chapters"],
           !.chapter_embeddings = data["chapter_embeddings"],
           !.vectorizer = data["vectorizer"]]

\* open(filepath, 'wb') fails when the directory does not exist
Writable(path) == path = GoodPath

\* ----------------------------------------------------- search_similar_texts
DocId(document_ids, p) ==
    IF document_ids = <<>> THEN p - 1 ELSE document_ids[p]

\* mutant: the handler reports the failure as a result entry
search_similar_texts_reporting(query_text, document_texts, document_ids, tie, top_k) ==
    LET fitted == FitTransform(document_texts)
        vec == fitted.vectorizer
    IN IF vec.vocabulary = <<>> THEN << <<"error", 0, <<>>>> >>
       ELSE
         LET sims == CosineSimilarity(Transform(vec, query_text), fitted.rows)
             top == TopIndices(sims, tie, top_k)
         IN [p \in 1..Len(top) |->
                <<DocId(document_ids, top[p]), sims[top[p]], document_texts[top[p]]>>]

search_similar_texts(query_text, document_texts, document_ids, tie, top_k) ==
    LET fitted == FitTransform(document_texts)
        vec == fitted.vectorizer
    IN IF vec.vocabulary = <<>> THEN <<>>       \* ValueError, caught
       ELSE
         LET sims == CosineSimilarity(Transform(vec, query_text), fitted.rows)
             top == TopIndices(sims, tie, top_k)
         IN [p \in 1..Len(top) |->
                <<DocId(document_ids, top[p]), sims[top[p]], document_texts[top[p]]>>]

\* the (chapter name, score) pairs of the chapters nearest to a question
map_question_to_chapters(question_text, chapter_texts, chapter_names, tie) ==
    LET results == search_similar_texts(question_text, chapter_texts,
                                        chapter_names, tie, MapTopK)
    IN [p \in 1..Len(results) |-> <<results[p][1], results[p][2]>>]

\* the ids of the documents (records with id and text) nearest to a query
semantic_search(query, documents, tie, top_k) ==
    LET doc_texts == [i \in 1..Len(documents) |-> documents[i].text]
        doc_ids == [i \in 1..Len(documents) |-> documents[i].id]
        results == search_similar_texts(query, doc_texts, doc_ids, tie, top_k)
    IN [p \in 1..Len(results) |-> results[p][1]]

\* -------------------------------------------- the module-level vectorizer
\* a numpy array holding a row
NdArray(row) == [kind |-> "ndarray", data |-> row]

\* the texts get_text_embedding is asked about
EmbeddingTexts == QuestionPool \cup { <<"the">> }

\* the corpora fit_vectorizer is given
Corpora ==
    UNION { [1..n -> {c.text : c \in ChapterPool}] : n \in 0..MaxChapters }

\* get_text_embedding: the vectorizer after the call and the value returned.
\* A vectorizer without vocabulary_ is fitted on the text itself.
get_text_embedding(text, vectorizer) ==
    IF ~vectorizer.fitted
    THEN IF CanFit(<<text>>)
         THEN LET fitted == FitTransform(<<text>>)
              IN [vectorizer |-> fitted.vectorizer,
                  ret |-> NdArray(fitted.rows[1])]
         ELSE [vectorizer |-> vectorizer, ret |-> None] \* ValueError, caught
    ELSE [vectorizer |-> vectorizer,
          ret |-> NdArray(Transform(vectorizer, text))]

\* fit_vectorizer: the module-level vectorizer after the call and whether
\* the vectorizer (TRUE) or None (FALSE) is returned
fit_vectorizer(vectorizer, texts) ==
    IF CanFit(texts)
    THEN [vectorizer |-> Fit(texts), ret |-> TRUE]
    ELSE [vectorizer |-> vectorizer, ret |-> FALSE]     \* ValueError, caught

\* ------------------------------------------------------- OCR client, retry
\* max_retries of ocr_image_with_retry and of extract_text_with_retry
OcrMaxRetries == 3

ExtractMaxRetries == 2

\* max_dimension of preprocess_image, in pixels
MaxDimension == 2048

\* the pause of extract_text_with_retry before a retry, in milliseconds
RetryPauseMilli == 500

\* bytes: what an image decoder makes of them; b'' and bytes that are no
\* image decode to nothing
EmptyBytes == [format |-> "none", size |-> 0, mode |-> "none"]

ImagePool ==
    { [format |-> "JPEG", size |-> 2 * MaxDimension, mode |-> "RGBA"],
      [format |-> "PNG", size |-> 100, mode |-> "RGB"] }

\* preprocess_image: resize to max_dimension, drop the alpha channel, save
\* as PNG; the original bytes when the image cannot be opened
preprocess_image(image_bytes) ==
    IF image_bytes.format = "none" THEN image_bytes
    ELSE [format |-> "PNG",
          size |-> Min(image_bytes.size, MaxDimension),
          mode |-> IF image_bytes.mode \in {"RGBA", "LA", "P"}
                   THEN "RGB" ELSE image_bytes.mode]

\* image files on disk
ImagePath == "scan.png"

MissingImage == "gone.png"

\* the image_file arguments: a path that exists, a path that does not, an
\* open file object positioned at its start
ImageFiles ==
    { [kind |-> "str", value |-> ImagePath, data |-> bytes, consumed |-> FALSE] :
          bytes \in ImagePool }
    \cup { [kind |-> "str", value |-> MissingImage, data |-> EmptyBytes,
            consumed |-> FALSE] }
    \cup { [kind |-> "file", value |-> "", data |-> bytes, consumed |-> FALSE] :
              bytes \in ImagePool }

\* str.lower() of the words of an error text
LowerWord(word) ==
    CASE word = "OCR" -> "ocr"
      [] word = "Read" -> "read"
      [] word = "Timeout" -> "timeout"
      [] word = "RuntimeError" -> "runtimeerror"
      [] word = "No" -> "no"
      [] OTHER -> word

str_lower(text) == [i \in DOMAIN text |-> LowerWord(text[i])]

\* pattern in text, for texts as sequences of words
Contains(pattern, text) ==
    \E i \in 0..(Len(text) - Len(pattern)) :
        \A j \in 1..Len(pattern) : text[i + j] = pattern[j]

\* what one requests.post does: a response with a status code and a JSON
\* body, a Timeout, or another exception
Json(success, error, text) ==
    [kind |-> "response", status |-> "200",
     body |-> [success |-> success, error |-> error, text |-> text]]

Status(code) ==
    [kind |-> "response", status |-> code,
     body |-> [success |-> FALSE, error |-> <<>>, text |-> <<>>]]

Raises(exc, message) ==
    [kind |-> exc, status |-> "",
     body |-> [success |-> FALSE, error |-> message, text |-> <<>>]]

PostOutcomes ==
    { Json(TRUE, <<>>, <<"water">>),
      Json(FALSE, <<"could", "not", "execute", "a", "primitive">>, <<>>),
      Status("500"),
      Status("404"),
      Raises("Timeout", <<"Read", "timed", "out">>),
      Raises("ConnectionError", <<"Read", "Timeout">>),
      Raises("ConnectionError", <<"runtimeerror">>) }

\* ocr_image: read the bytes, preprocess, post; every failure is a result
ocr_image(image_file, post) ==
    IF image_file.kind = "str" /\ image_file.value # ImagePath
    THEN [image_file |-> image_file, sent |-> <<>>,
          result |-> [success |-> FALSE, text |-> <<>>,
                      error |-> <<"No", "such", "file">>]]
    ELSE LET image_bytes ==
                 IF image_file.kind = "file" /\ image_file.consumed
                 THEN EmptyBytes ELSE image_file.data
             read == IF image_file.kind = "file"
                     THEN [image_file EXCEPT !.consumed = TRUE]
                     ELSE image_file
         IN [image_file |-> read,
             sent |-> << preprocess_image(image_bytes) >>,
             result |->
                 IF post.kind = "response"
                 THEN IF post.status = "200" THEN post.body
                      ELSE [success |-> FALSE, text |-> <<>>,
                            error |-> <<"OCR", "service", "error:",
                                        post.status>>]
                 ELSE IF post.kind = "Timeout"
                 THEN [success |-> FALSE, text |-> <<>>,
                       error |-> <<"OCR", "service", "timeout">>]
                 ELSE [success |-> FALSE, text |-> <<>>,
                       error |-> post.body.error]]

is_retryable(error) ==
    \/ Contains(<<"could", "not", "execute", "a", "primitive">>, error)
    \/ Contains(<<"RuntimeError">>, error)
    \/ Contains(<<"timeout">>, str_lower(error))
    \/ Contains(<<"500">>, error)

\* mutant: the backoff grows linearly
wait_time_linear(attempt) == 2 * (attempt + 1) - 1

\* exponential backoff, in seconds
wait_time(attempt) == 2 ^ attempt

\* mutant: a successful attempt does not end the loop
returns_on_failure(result, attempt, max_retries) ==
    /\ ~result.success
    /\ ~(is_retryable(result.error) /\ attempt < max_retries - 1)

\* the loop body returns the result of this attempt
returns(result, attempt, max_retries) ==
    \/ result.success
    \/ ~(is_retryable(result.error) /\ attempt < max_retries - 1)

MaxRetriesExceeded ==
    [success |-> FALSE, text |-> <<>>,
     error |-> <<"Max", "retries", "exceeded">>]

\* for attempt in range(max_retries), from the attempt given
RECURSIVE ocr_attempts(_, _)
ocr_attempts(run, attempt) ==
    IF attempt >= run.max_retries
    THEN [run EXCEPT !.ret = MaxRetriesExceeded]
    ELSE LET call == ocr_image(run.image_file, run.posts[attempt + 1])
             after == [run EXCEPT !.image_file = call.image_file,
                                  !.results = Append(@, call.result),
                                  !.sent = Append(@, call.sent)]
         IN IF returns(call.result, attempt, run.max_retries)
            THEN [after EXCEPT !.ret = call.result]
            ELSE ocr_attempts(
                     [after EXCEPT !.waits =
                         Append(@, [attempt |-> attempt,
                                    seconds |-> wait_time(attempt)])],
                     attempt + 1)

\* ocr_image_with_retry, given what each post will do
ocr_image_with_retry(image_file, posts, max_retries) ==
    ocr_attempts([pc |-> "ocr_image_with_retry", image_file |-> image_file,
                  posts |-> posts, max_retries |-> max_retries,
                  results |-> <<>>, sent |-> <<>>, waits |-> <<>>,
                  ret |-> MaxRetriesExceeded], 0)

\* what one attempt of the OCR service does: the engine's result, or an
\* exception of preprocessing or of the engine
EngineOutcomes ==
    { [ok |-> TRUE, value |-> <<"water">>],
      [ok |-> FALSE, value |-> <<"RuntimeError">>],
      [ok |-> FALSE, value |-> <<"cannot", "identify", "image", "file">>] }

RECURSIVE extract_attempts(_, _)
extract_attempts(run, attempt) ==
    IF attempt >= run.max_retries
    THEN [run EXCEPT !.ret = None]
    ELSE LET outcome == run.outcomes[attempt + 1]
             after == [run EXCEPT !.results = Append(@, outcome)]
         IN IF outcome.ok
            THEN [after EXCEPT !.ret = Str(outcome.value)]
            ELSE IF attempt < run.max_retries - 1
            THEN extract_attempts(
                     [after EXCEPT !.waits =
                         Append(@, [attempt |-> attempt,
                                    millis |-> RetryPauseMilli])],
                     attempt + 1)
            ELSE [after EXCEPT !.raised = Str(outcome.value)]

\* extract_text_with_retry of the OCR service, given what each attempt does
extract_text_with_retry(outcomes, max_retries) ==
    extract_attempts([pc |-> "extract_text_with_retry",
                      outcomes |-> outcomes, max_retries |-> max_retries,
                      results |-> <<>>, waits |-> <<>>,
                      ret |-> None, raised |-> None], 0)

\* ------------------------------------------------------------------ state
VARIABLES
    index,      \* the TextbookIndex instance the caller holds
    files,      \* the file system: path -> pickled blob, for the paths that exist
    tieOrder,   \* how this process's argsort orders equal keys
    last,       \* the last call: operation, arguments, return value
    writer,     \* the thread that changes the index: where it is in build_index
    readers,    \* the threads that search the index: where each is in search
    tfidf_vectorizer,   \* the module-level vectorizer of ai_helpers
    ocr,        \* the OCR call in progress: input, attempts, waits, result
    db          \* the textbooks table: textbook id -> row

vars == <<index, files, tieOrder, last, writer, readers, tfidf_vectorizer,
          ocr, db>>

\* no OCR call has been made
NoOcr == [pc |-> "idle"]

\* a thread that is in no call
Idle == [pc |-> "idle"]

Call(op, query, top_k, ids, path, ret) ==
    [op |-> op, query |-> query, top_k |-> top_k, ids |-> ids,
     path |-> path, ret |-> ret]

\* a call with the exception its handler caught and the one that reached
\* the caller
Outcome(call, caught) ==
    call @@ [caught |-> caught, raised |-> Escapes(caught)]

Init ==
    /\ index \in {NewIndex(id) : id \in TextbookIds}
    /\ files = <<>>
    /\ tieOrder \in TieOrders
    /\ last = Call("init", <<>>, 0, "none", "", FALSE)
    /\ writer = Idle
    /\ readers = <<>>
    /\ tfidf_vectorizer = NewVectorizer
    /\ ocr = NoOcr
    /\ db = <<>>

AddChapter ==
    /\ Len(index.chapters) < MaxChapters
    /\ \E c \in ChapterPool :
          index' = add_chapter(index, c.name, c.text)
    /\ last' = Call("add_chapter", <<>>, 0, "none", "", FALSE)
    /\ UNCHANGED <<files, tieOrder, writer, readers,
                   tfidf_vectorizer, ocr, db>>

BuildIndex ==
    /\ LET built == build_index(index)
       IN /\ index' = built.index
          /\ last' = Outcome(Call("build_index", <<>>, 0, "none", "",
                                  built.ret), built.caught)
    /\ UNCHANGED <<files, tieOrder, writer, readers,
                   tfidf_vectorizer, ocr, db>>

\* mutant: a search refreshes the index it has searched
SearchRefreshing ==
    /\ \E q \in QueryPool, k \in TopKs :
          last' = Call("search", q, k, "none", "", search(index, tieOrder, q, k))
    /\ index' = build_index(index).index
    /\ UNCHANGED <<files, tieOrder, writer, readers,
                   tfidf_vectorizer, ocr, db>>

Search ==
    /\ \E q \in QueryPool, k \in TopKs :
          last' = Call("search", q, k, "none", "", search(index, tieOrder, q, k))
    /\ UNCHANGED <<index, files, tieOrder, writer, readers,
                   tfidf_vectorizer, ocr, db>>

\* search_similar_texts over the texts of the chapters held, with the default
\* ids (None) or with the chapter names as ids (map_question_to_chapters)
SearchSimilarTextsOver(queries) ==
    /\ \E q \in queries, k \in TopKs, ids \in {"None", "names"} :
          last' = Call("search_similar_texts", q, k, ids, "",
                       search_similar_texts(q, ChapterTexts(index),
                           IF ids = "None" THEN <<>> ELSE ChapterNames(index),
                           tieOrder, k))
    /\ UNCHANGED <<index, files, tieOrder, writer, readers,
                   tfidf_vectorizer, ocr, db>>

SearchSimilarTexts == SearchSimilarTextsOver(QueryPool)

\* the same call, with the questions of the similarity helpers
SearchSimilarQuestions == SearchSimilarTextsOver(QuestionPool)

\* map_question_to_chapters over the chapters held
MapQuestionToChapters ==
    /\ \E q \in QuestionPool :
          last' = Call("map_question_to_chapters", q, MapTopK, "names", "",
                       map_question_to_chapters(q, ChapterTexts(index),
                           ChapterNames(index), tieOrder))
    /\ UNCHANGED <<index, files, tieOrder, writer, readers,
                   tfidf_vectorizer, ocr, db>>

\* semantic_search over the chapters held, as documents with id and text
SemanticSearch ==
    /\ \E q \in QuestionPool, k \in TopKs :
          last' = Call("semantic_search", q, k, "ids", "",
                       semantic_search(q,
                           [i \in 1..Len(index.chapters) |->
                               [id |-> index.chapters[i].name,
                                text |-> index.chapters[i].text]],
                           tieOrder, k))
    /\ UNCHANGED <<index, files, tieOrder, writer, readers,
                   tfidf_vectorizer, ocr, db>>

Save ==
    /\ \E path \in Paths :
          IF Writable(path)
          THEN /\ files' = [p \in DOMAIN files \cup {path} |->
                               IF p = path THEN Pickle(index) ELSE files[p]]
               /\ last' = Outcome(Call("save", <<>>, 0, "none", path, TRUE),
                                  "none")
          ELSE /\ files' = files
               /\ last' = Outcome(Call("save", <<>>, 0, "none", path, FALSE),
                                  "FileNotFoundError")
    /\ UNCHANGED <<index, tieOrder, writer, readers,
                   tfidf_vectorizer, ocr, db>>

\* TextbookIndex.load; the caller goes on with the instance returned, and
\* keeps the one it has when load returns None
Load ==
    /\ \E path \in Paths :
          IF path \in DOMAIN files
          THEN /\ index' = load(files[path])
               /\ last' = Outcome(Call("load", <<>>, 0, "none", path,
                                       load(files[path])), "none")
          ELSE /\ index' = index
               /\ last' = Outcome(Call("load", <<>>, 0, "none", path, None),
                                  "FileNotFoundError")
    /\ UNCHANGED <<files, tieOrder, writer, readers,
                   tfidf_vectorizer, ocr, db>>

\* the arguments search is given for its query: a str or None
AnyQueries == {Str(<<"water">>), Str(<<"gravity">>), None}

\* search with any argument for the query: a str or None
SearchAnyArgument ==
    /\ \E q \in AnyQueries, k \in ReaderTopKs :
          LET out == search_call(index, tieOrder, q, k)
          IN last' = Outcome(Call("search", q, k, "none", "", out.ret),
                             out.caught)
    /\ UNCHANGED <<index, files, tieOrder, writer, readers,
                   tfidf_vectorizer, ocr, db>>

\* the state before a textbook is indexed: the PDF is on disk
InitTextbook ==
    /\ index \in {NewIndex(id) : id \in TextbookIds}
    /\ files \in {[p \in {PdfPath} |-> pdf] : pdf \in PdfPool}
    /\ tieOrder \in TieOrders
    /\ last = Call("init", <<>>, 0, "none", "", FALSE)
    /\ writer = Idle
    /\ readers = <<>>
    /\ tfidf_vectorizer = NewVectorizer
    /\ ocr = NoOcr
    /\ db = <<>>

\* index_textbook; the caller goes on with the index returned
IndexTextbook ==
    /\ \E pdf_path \in PdfPaths, id \in TextbookIds,
          chapter_detection \in ChapterDetections :
          /\ index' = index_textbook(files, pdf_path, id, chapter_detection)
          /\ last' = [op |-> "index_textbook", path |-> pdf_path,
                      chapter_detection |-> chapter_detection]
    /\ UNCHANGED <<files, tieOrder, writer, readers,
                   tfidf_vectorizer, ocr, db>>

\* ------------------------------------------------ the index-textbook routes
\* f"vector_indices/{textbook_id}/index.pkl"
IndexPath(textbook_id) == "vector_indices/" \o textbook_id \o "/index.pkl"

\* the textbooks table: no row, or the row of an uploaded textbook that is
\* not indexed yet
Textbooks ==
    { <<>> } \cup
    { [id \in {textbook_id} |->
          [file_path |-> file_path, chapters_extracted |-> 0]] :
      textbook_id \in TextbookIds, file_path \in PdfPaths }

\* the state in which a route is called: the PDF on disk, the table
InitRoute ==
    /\ index \in {NewIndex(id) : id \in TextbookIds}
    /\ files \in {[p \in {PdfPath} |-> pdf] : pdf \in PdfPool}
    /\ tieOrder \in TieOrders
    /\ last = Call("init", <<>>, 0, "none", "", FALSE)
    /\ writer = Idle
    /\ readers = <<>>
    /\ tfidf_vectorizer = NewVectorizer
    /\ ocr = NoOcr
    /\ db \in Textbooks

Response(route, status, success, chapters) ==
    [op |-> route, status |-> status, success |-> success,
     chapters |-> chapters]

\* what both routes do once they have the file path: index, save, answer,
\* mark the row
IndexSaveMark(route, textbook_id, file_path) ==
    LET idx == index_textbook(files, file_path, textbook_id, "auto")
        index_path == IndexPath(textbook_id)
    IN /\ index' = idx
       /\ files' = [p \in DOMAIN files \cup {index_path} |->
                       IF p = index_path THEN Pickle(idx) ELSE files[p]]
       /\ db' = [db EXCEPT ![textbook_id].chapters_extracted = 1]
       /\ last' = Response(route, 200, TRUE, Len(idx.chapters))

\* POST /api/index-textbook/<textbook_id>, index_textbook
IndexTextbookRoute ==
    /\ \E textbook_id \in TextbookIds :
          IF textbook_id \notin DOMAIN db
          THEN /\ last' = Response("index_textbook", 404, FALSE, 0)
               /\ UNCHANGED <<index, files, db>>
          ELSE IndexSaveMark("index_textbook", textbook_id,
                             db[textbook_id].file_path)
    /\ UNCHANGED <<tieOrder, writer, readers, tfidf_vectorizer, ocr>>

\* POST /api/index-textbook/<textbook_id>, index_textbook_uuid: answers 404
\* when the file is not on disk
IndexTextbookUuidRoute ==
    /\ \E textbook_id \in TextbookIds :
          IF textbook_id \notin DOMAIN db
                \/ db[textbook_id].file_path \notin DOMAIN files
          THEN /\ last' = Response("index_textbook_uuid", 404, FALSE, 0)
               /\ UNCHANGED <<index, files, db>>
          ELSE IndexSaveMark("index_textbook_uuid", textbook_id,
                             db[textbook_id].file_path)
    /\ UNCHANGED <<tieOrder, writer, readers, tfidf_vectorizer, ocr>>

\* ------------------------------------------------- build_index, step by step
\* The writer thread runs add_chapter and build_index on the shared index.
\* A step is the code between two accesses of the attributes of self that
\* another thread can see.

WriterAddChapter ==
    /\ writer.pc = "idle"
    /\ Len(index.chapters) < MaxChapters
    /\ \E c \in ChapterPool :
          index' = add_chapter(index, c.name, c.text)
    /\ UNCHANGED <<files, tieOrder, last, writer, readers,
                   tfidf_vectorizer, ocr, db>>

\* the guard of build_index and the copy of the chapter texts
WriterBuildCall ==
    /\ writer.pc = "idle"
    /\ writer' = IF index.chapters = <<>>
                 THEN Idle                      \* returns False
                 ELSE [pc |-> "assign", chapter_texts |-> ChapterTexts(index)]
    /\ UNCHANGED <<index, files, tieOrder, last, readers,
                   tfidf_vectorizer, ocr, db>>

\* self.vectorizer = TfidfVectorizer(...)
WriterAssign ==
    /\ writer.pc = "assign"
    /\ index' = [index EXCEPT !.vectorizer = NewVectorizer]
    /\ writer' = [writer EXCEPT !.pc = "fit"]
    /\ UNCHANGED <<files, tieOrder, last, readers,
                   tfidf_vectorizer, ocr, db>>

\* mutant: the vectors are stored by the step that fits the model
WriterFitAndStore ==
    /\ writer.pc = "fit"
    /\ IF CanFit(writer.chapter_texts)
       THEN LET fitted == FitTransform(writer.chapter_texts)
            IN /\ index' = [index EXCEPT !.vectorizer = fitted.vectorizer,
                                         !.chapter_embeddings = fitted.rows]
               /\ writer' = [pc |-> "store", rows |-> fitted.rows]
       ELSE /\ index' = index
            /\ writer' = Idle
    /\ UNCHANGED <<files, tieOrder, last, readers,
                   tfidf_vectorizer, ocr, db>>

\* self.vectorizer.fit_transform(chapter_texts): the vectorizer that
\* self.vectorizer refers to is fitted in place, the rows are not stored yet
WriterFit ==
    /\ writer.pc = "fit"
    /\ IF CanFit(writer.chapter_texts)
       THEN LET fitted == FitTransform(writer.chapter_texts)
            IN /\ index' = [index EXCEPT !.vectorizer = fitted.vectorizer]
               /\ writer' = [pc |-> "store", rows |-> fitted.rows]
       ELSE /\ index' = index                   \* ValueError: returns False
            /\ writer' = Idle
    /\ UNCHANGED <<files, tieOrder, last, readers,
                   tfidf_vectorizer, ocr, db>>

\* self.chapter_embeddings = ...; returns True
WriterStore ==
    /\ writer.pc = "store"
    /\ index' = [index EXCEPT !.chapter_embeddings = writer.rows]
    /\ writer' = Idle
    /\ UNCHANGED <<files, tieOrder, last, readers,
                   tfidf_vectorizer, ocr, db>>

\* ------------------------------------------------------ search, step by step
\* a reader thread that has returned from search: the call, the model and
\* the vectors it read, and the results
Returned(query, top_k, model, vectors, ret) ==
    [pc |-> "returned", query |-> query, top_k |-> top_k,
     model |-> model, vectors |-> vectors, ret |-> ret]

\* the call and the guard of search
ReaderSearchCall(r) ==
    /\ readers[r].pc \in {"idle", "returned"}
    /\ \E q \in QueryPool, k \in ReaderTopKs :
          readers' = [readers EXCEPT ![r] =
              IF NotBuilt(index)
              THEN Returned(q, k, NoVectorizer, <<>>, <<>>)
              ELSE [pc |-> "transform", query |-> q, top_k |-> k]]
    /\ UNCHANGED <<index, files, tieOrder, last, writer,
                   tfidf_vectorizer, ocr, db>>

\* self.vectorizer.transform([query])
ReaderTransform(r) ==
    /\ readers[r].pc = "transform"
    /\ LET me == readers[r]
           model == index.vectorizer
       IN readers' = [readers EXCEPT ![r] =
              IF model.kind = "None" \/ ~model.fitted
              THEN \* AttributeError or NotFittedError, caught
                   Returned(me.query, me.top_k, model, <<>>, <<>>)
              ELSE [pc |-> "cosine", query |-> me.query, top_k |-> me.top_k,
                    model |-> model,
                    query_embedding |-> Transform(model, me.query)]]
    /\ UNCHANGED <<index, files, tieOrder, last, writer,
                   tfidf_vectorizer, ocr, db>>

\* mutant: search keeps only the vectors of the chapters it is going to
\* return
ReaderCosineKeepingTop(r) ==
    /\ readers[r].pc = "cosine"
    /\ LET me == readers[r]
           vectors == index.chapter_embeddings
           similarities == CosineSimilarity(me.query_embedding, vectors)
           top_indices == TopIndices(similarities, tieOrder, me.top_k)
       IN /\ readers' = [readers EXCEPT ![r] =
                 [pc |-> "results", query |-> me.query, top_k |-> me.top_k,
                  model |-> me.model, vectors |-> vectors,
                  similarities |-> similarities,
                  top_indices |-> top_indices]]
          /\ index' = [index EXCEPT !.chapter_embeddings =
                          SubSeq(vectors, 1, Len(top_indices))]
    /\ UNCHANGED <<files, tieOrder, last, writer,
                   tfidf_vectorizer, ocr, db>>

\* cosine_similarity([query_embedding], self.chapter_embeddings) and argsort
ReaderCosine(r) ==
    /\ readers[r].pc = "cosine"
    /\ LET me == readers[r]
           vectors == index.chapter_embeddings
           similarities == CosineSimilarity(me.query_embedding, vectors)
       IN readers' = [readers EXCEPT ![r] =
              IF \/ Len(vectors) = 0
                 \/ \E i \in DOMAIN vectors :
                       Len(vectors[i]) # Len(me.query_embedding)
              THEN \* ValueError (shapes do not fit), caught
                   Returned(me.query, me.top_k, me.model, vectors, <<>>)
              ELSE [pc |-> "results", query |-> me.query, top_k |-> me.top_k,
                    model |-> me.model, vectors |-> vectors,
                    similarities |-> similarities,
                    top_indices |->
                        TopIndices(similarities, tieOrder, me.top_k)]]
    /\ UNCHANGED <<index, files, tieOrder, last, writer,
                   tfidf_vectorizer, ocr, db>>

\* the loop that builds the results from self.chapters
ReaderResults(r) ==
    /\ readers[r].pc = "results"
    /\ LET me == readers[r]
       IN readers' = [readers EXCEPT ![r] =
              Returned(me.query, me.top_k, me.model, me.vectors,
                  IF \E p \in DOMAIN me.top_indices :
                        me.top_indices[p] > Len(index.chapters)
                  THEN <<>>                     \* IndexError, caught
                  ELSE SearchResults(index, me.similarities,
                                     me.top_indices))]
    /\ UNCHANGED <<index, files, tieOrder, last, writer,
                   tfidf_vectorizer, ocr, db>>

\* get_text_embedding(text) with the default vectorizer
GetTextEmbedding ==
    /\ \E text \in EmbeddingTexts :
          LET out == get_text_embedding(text, tfidf_vectorizer)
          IN /\ tfidf_vectorizer' = out.vectorizer
             /\ last' = [op |-> "get_text_embedding", text |-> text,
                         ret |-> out.ret]
    /\ UNCHANGED <<index, files, tieOrder, writer, readers, ocr, db>>

FitVectorizer ==
    /\ \E texts \in Corpora :
          LET out == fit_vectorizer(tfidf_vectorizer, texts)
          IN /\ tfidf_vectorizer' = out.vectorizer
             /\ last' = [op |-> "fit_vectorizer", texts |-> texts,
                         ret |-> out.ret]
    /\ UNCHANGED <<index, files, tieOrder, writer, readers, ocr, db>>

\* a call of ocr_image_with_retry of the backend; calls share no state, so
\* one call is followed from the state in which none was made
OcrImageWithRetry ==
    /\ ocr = NoOcr
    /\ \E image_file \in ImageFiles,
          posts \in [1..OcrMaxRetries -> PostOutcomes],
          max_retries \in 0..OcrMaxRetries :
          ocr' = ocr_image_with_retry(image_file, posts, max_retries)
    /\ UNCHANGED <<index, files, tieOrder, last, writer, readers,
                   tfidf_vectorizer, db>>

\* a call of extract_text_with_retry of the OCR service
ExtractTextWithRetry ==
    /\ ocr = NoOcr
    /\ \E outcomes \in [1..(ExtractMaxRetries + 1) -> EngineOutcomes],
          max_retries \in 0..(ExtractMaxRetries + 1) :
          ocr' = extract_text_with_retry(outcomes, max_retries)
    /\ UNCHANGED <<index, files, tieOrder, last, writer, readers,
                   tfidf_vectorizer, db>>

Next == AddChapter \/ BuildIndex \/ Search \/ SearchSimilarTexts

Spec == Init /\ [][Next]_vars

NextPersist == AddChapter \/ BuildIndex \/ Save \/ Load

SpecPersist == Init /\ [][NextPersist]_vars

\* the similarity helpers of ai_helpers over a growing list of documents
NextSimilar ==
    AddChapter \/ SearchSimilarQuestions \/ MapQuestionToChapters
        \/ SemanticSearch

SpecSimilar == Init /\ [][NextSimilar]_vars

\* indexing a textbook PDF
NextTextbook == IndexTextbook

SpecTextbook == InitTextbook /\ [][NextTextbook]_vars

\* the endpoints that index a textbook
NextRoute == IndexTextbookRoute \/ IndexTextbookUuidRoute

SpecRoute == InitRoute /\ [][NextRoute]_vars

\* the four operations of an index that handle their own failures
NextErrors ==
    AddChapter \/ BuildIndex \/ SearchAnyArgument \/ Save \/ Load

SpecErrors == Init /\ [][NextErrors]_vars

\* the embedding helpers of ai_helpers and their module-level vectorizer
NextEmbedding == GetTextEmbedding \/ FitVectorizer

SpecEmbedding == Init /\ [][NextEmbedding]_vars

\* the OCR retry wrappers of the backend and of the OCR service
NextOcr == OcrImageWithRetry \/ ExtractTextWithRetry

SpecOcr == Init /\ [][NextOcr]_vars

\* one thread changes the index while another searches it, without a lock
InitConcurrent ==
    /\ index \in {NewIndex(id) : id \in TextbookIds}
    /\ files = <<>>
    /\ tieOrder \in TieOrders
    /\ last = Call("init", <<>>, 0, "none", "", FALSE)
    /\ writer = Idle
    /\ readers = [r \in {"r1"} |-> Idle]
    /\ tfidf_vectorizer = NewVectorizer
    /\ ocr = NoOcr
    /\ db = <<>>

NextConcurrent ==
    \/ WriterAddChapter
    \/ WriterBuildCall
    \/ WriterAssign
    \/ WriterFit
    \/ WriterStore
    \/ \E r \in DOMAIN readers : ReaderSearchCall(r)
    \/ \E r \in DOMAIN readers : ReaderTransform(r)
    \/ \E r \in DOMAIN readers : ReaderCosine(r)
    \/ \E r \in DOMAIN readers : ReaderResults(r)

SpecConcurrent == InitConcurrent /\ [][NextConcurrent]_vars

\* the indexes build_index has been called on, for one to MaxChapters chapters
BuiltIndexes ==
    { build_index(add_chapters(NewIndex(id), chapters, Len(chapters))).index :
        id \in TextbookIds,
        chapters \in UNION {[1..n -> ChapterPool] : n \in 1..MaxChapters} }

\* build once, then several threads search the index and nothing changes it
InitReaders ==
    /\ index \in BuiltIndexes
    /\ files = <<>>
    /\ tieOrder \in TieOrders
    /\ last = Call("init", <<>>, 0, "none", "", FALSE)
    /\ writer = Idle
    /\ readers = [r \in ReaderIds |-> Idle]
    /\ tfidf_vectorizer = NewVectorizer
    /\ ocr = NoOcr
    /\ db = <<>>

NextReaders ==
    \/ \E r \in DOMAIN readers : ReaderSearchCall(r)
    \/ \E r \in DOMAIN readers : ReaderTransform(r)
    \/ \E r \in DOMAIN readers : ReaderCosine(r)
    \/ \E r \in DOMAIN readers : ReaderResults(r)

SpecReaders == InitReaders /\ [][NextReaders]_vars

\* ------------------------------------------------------------- properties
\* what search returns, for every query and top_k
AllSearches(idx, tie) ==
    [q \in QueryPool |-> [k \in TopKs |-> search(idx, tie, q, k)]]

\* search returns no result, whatever the query and top_k
Unsearchable(idx, tie) ==
    \A q \in QueryPool, k \in TopKs : search(idx, tie, q, k) = <<>>

\* the index has a fitted model and vectors
Built(idx) ==
    /\ idx.vectorizer.kind = "TfidfVectorizer"
    /\ idx.vectorizer.fitted
    /\ Len(idx.chapter_embeddings) > 0

IsPrefix(s, t) == Len(s) <= Len(t) /\ \A i \in DOMAIN s : s[i] = t[i]

\* C1: stale index.  An add_chapter call changes nothing of what search
\* returns, for every query and top_k, so that until the next build_index the
\* results stay those of the last build; and every result of a search is one
\* of the chapters that were there at the last build (the leading chapters,
\* one per vector).
C1_StaleIndex ==
    [][ /\ last'.op = "add_chapter" =>
             AllSearches(index', tieOrder') = AllSearches(index, tieOrder)
        /\ last'.op = "search" =>
             \A p \in DOMAIN last'.ret :
                \E i \in 1..Len(index'.chapter_embeddings) :
                   /\ last'.ret[p].chapter_name = index'.chapters[i].name
                   /\ last'.ret[p].chapter_text = index'.chapters[i].text
      ]_vars

\* C1 witness: a search that returned results on an index holding a chapter
\* added after its last build
C1_Witness ==
    /\ last.op = "search"
    /\ last.ret # <<>>
    /\ Len(index.chapter_embeddings) > 0
    /\ Len(index.chapters) > Len(index.chapter_embeddings)

\* C2: when build_index returns True the index holds a fitted model whose
\* vocabulary and idf weights are those of all the chapters now in the chapter
\* list, and one vector per chapter, the i-th being the transform of the i-th
\* chapter's text; a search for all of them returns every chapter.
C2_BuildReplaces ==
    (last.op = "build_index" /\ last.ret = TRUE) =>
        LET docs == AnalyzeAll(ChapterTexts(index))
            vocabulary == index.vectorizer.vocabulary
        IN /\ index.vectorizer.kind = "TfidfVectorizer"
           /\ index.vectorizer.fitted
           /\ Range(vocabulary) = UNION {Range(docs[i]) : i \in DOMAIN docs}
           /\ Len(vocabulary) = Cardinality(Range(vocabulary))
           /\ \A c \in DOMAIN vocabulary :
                 index.vectorizer.idf[c] = Idf(vocabulary[c], docs)
           /\ Len(index.chapter_embeddings) = Len(index.chapters)
           /\ \A i \in DOMAIN index.chapters :
                 index.chapter_embeddings[i] =
                    Transform(index.vectorizer, index.chapters[i].text)
           /\ \A q \in QueryPool :
                 Len(search(index, tieOrder, q, Len(index.chapters)))
                    = Len(index.chapters)

\* C2 witness: build_index returned True on an index of several chapters
\* whose last chapter brings terms the first one does not have
C2_Witness ==
    /\ last.op = "build_index"
    /\ last.ret = TRUE
    /\ Len(index.chapters) >= 2
    /\ Range(Analyze(index.chapters[Len(index.chapters)].text))
          \ Range(Analyze(index.chapters[1].text)) # {}

\* C3: build_index on an index with no chapters returns False, raises and
\* catches nothing, and leaves the model unset and the vectors empty, so that
\* every search returns the empty list.
C3_EmptyBuild ==
    (last.op = "build_index" /\ index.chapters = <<>>) =>
        /\ last.ret = FALSE
        /\ build_index(index).caught = "none"
        /\ index.vectorizer = NoVectorizer
        /\ index.chapter_embeddings = <<>>
        /\ Unsearchable(index, tieOrder)

\* C3 witness: build_index was called on an index with no chapters
C3_Witness ==
    /\ last.op = "build_index"
    /\ index.chapters = <<>>
    /\ last.ret = FALSE

\* C4: a new index returns the empty list for every search, and only a
\* build_index call that returns True ends that: while no build has succeeded,
\* every search returns the empty list for every query and top_k, whatever
\* chapters were added and whatever builds failed.
C4_NeverBuilt ==
    /\ Unsearchable(index, tieOrder)
    /\ [][ /\ (/\ <<index', tieOrder'>> # <<index, tieOrder>>
                /\ ~(last'.op = "build_index" /\ last'.ret = TRUE)
                /\ Unsearchable(index, tieOrder))
               => Unsearchable(index', tieOrder')
           /\ (last'.op = "search" /\ last'.ret # <<>>)
               => ~Unsearchable(index, tieOrder)
         ]_vars

\* C4 witness: a search returned the empty list on an index that holds
\* chapters, on which a build was tried and failed, and that has no vectors
C4_Witness ==
    /\ last.op = "search"
    /\ last.ret = <<>>
    /\ index.chapters # <<>>
    /\ index.vectorizer = NewVectorizer
    /\ index.chapter_embeddings = <<>>

\* C5: round trip.  When save succeeds, load of the file it wrote yields an
\* index with the identifier, chapter list, vectors and model of the index
\* saved, whose search returns the same results for every query and top_k;
\* and a load that succeeds hands the caller exactly what the file holds.
C5_RoundTrip ==
    [][ /\ (last'.op = "save" /\ last'.ret = TRUE) =>
             LET restored == load(files'[last'.path])
             IN /\ restored.textbook_id = index.textbook_id
                /\ restored.chapters = index.chapters
                /\ restored.chapter_embeddings = index.chapter_embeddings
                /\ restored.vectorizer = index.vectorizer
                /\ AllSearches(restored, tieOrder) = AllSearches(index, tieOrder)
        /\ (last'.op = "load" /\ last'.ret # None) =>
             Pickle(index') = files[last'.path]
      ]_vars

\* C5 witness: a load returned an index that was saved after it had been
\* built and then extended with add_chapter
C5_Witness ==
    /\ last.op = "load"
    /\ last.ret = index
    /\ Built(index)
    /\ Len(index.chapters) > Len(index.chapter_embeddings)
    /\ Pickle(index) = files[last.path]

\* the scores of a result of search / of search_similar_texts
SearchScores(ret) == [p \in DOMAIN ret |-> ret[p].similarity_score]

SimilarScores(ret) == [p \in DOMAIN ret |-> ret[p][2]]

NonIncreasing(scores) ==
    \A i, j \in DOMAIN scores : i < j => scores[i] >= scores[j]

\* C6: the results of search and of search_similar_texts are in
\* non-increasing order of score.
C6_Descending ==
    /\ last.op = "search" => NonIncreasing(SearchScores(last.ret))
    /\ last.op = "search_similar_texts" => NonIncreasing(SimilarScores(last.ret))

\* C6 witness: search_similar_texts returned two documents with different
\* scores, and search on the index built on the same texts does so as well
C6_Witness ==
    /\ last.op = "search_similar_texts"
    /\ Len(last.ret) = 2
    /\ last.ret[1][2] > last.ret[2][2]
    /\ Built(index)
    /\ LET r == search(index, tieOrder, last.query, last.top_k)
       IN Len(r) = 2 /\ r[1].similarity_score > r[2].similarity_score

\* the similarities search_similar_texts computes
SimilarSims(query_text, document_texts) ==
    LET fitted == FitTransform(document_texts)
    IN CosineSimilarity(Transform(fitted.vectorizer, query_text), fitted.rows)

\* among equal scores, the earlier position of the corpus comes first
StableTies(sims, top) ==
    \A i, j \in DOMAIN top :
        (i < j /\ sims[top[i]] = sims[top[j]]) => top[i] < top[j]

\* C7: ties are broken in corpus order: of two chapters/documents with equal
\* scores the one that comes first in the corpus comes first in the result.
C7_StableTieBreak ==
    /\ (last.op = "search" /\ Built(index)) =>
          StableTies(Similarities(index, last.query),
                     SearchIndices(index, tieOrder, last.query, last.top_k))
    /\ (last.op = "search_similar_texts" /\ CanFit(ChapterTexts(index))) =>
          StableTies(SimilarSims(last.query, ChapterTexts(index)),
                     TopIndices(SimilarSims(last.query, ChapterTexts(index)),
                                tieOrder, last.top_k))

\* C8: a top_k of zero or less gives the empty sequence.
C8_NonPositiveTopK ==
    (last.op \in {"search", "search_similar_texts"} /\ last.top_k <= 0)
        => last.ret = <<>>

\* the positions of the chapters in a result are all different
Distinct(top) == \A i, j \in DOMAIN top : i # j => top[i] # top[j]

\* C9: for top_k >= 1, search on a built index with N vectors (the chapters
\* at build time) returns exactly min(top_k, N) results, each for a different
\* one of these chapters, whatever the query.
C9_ResultCount ==
    (last.op = "search" /\ last.top_k >= 1 /\ Built(index)) =>
        LET top == SearchIndices(index, tieOrder, last.query, last.top_k)
        IN /\ Len(last.ret) =
                 Min(last.top_k, Len(index.chapter_embeddings))
           /\ Len(top) = Len(last.ret)
           /\ Distinct(top)
           /\ \A p \in DOMAIN top :
                 /\ top[p] \in 1..Len(index.chapter_embeddings)
                 /\ last.ret[p].chapter_name = index.chapters[top[p]].name
                 /\ last.ret[p].chapter_text = index.chapters[top[p]].text

\* C9 witness: a search with top_k above the number of chapters and a query
\* that shares no term with any chapter returned all the chapters
C9_Witness ==
    /\ last.op = "search"
    /\ Built(index)
    /\ last.top_k > Len(index.chapters)
    /\ Len(index.chapters) >= 2
    /\ last.query = <<"gravity">>
    /\ Len(last.ret) = Len(index.chapters)

\* C10: for every integer k, search(q, k) is a prefix of search(q, k + 1).
C10_TopKPrefix ==
    last.op = "search" =>
        IsPrefix(last.ret, search(index, tieOrder, last.query, last.top_k + 1))

\* ---------------------------------------------------------------------
\* C11: with an empty document list search_similar_texts returns an empty
\* sequence (the exception of the fit is caught inside), and so do
\* map_question_to_chapters and semantic_search, which are built on it.
C11_EmptyCorpus ==
    (/\ last.op \in {"search_similar_texts", "map_question_to_chapters",
                     "semantic_search"}
     /\ ChapterTexts(index) = <<>>)
        => last.ret = <<>>

C11_Witness ==
    /\ last.op = "map_question_to_chapters"
    /\ last.query = <<"water">>
    /\ ChapterTexts(index) = <<>>
    /\ last.ret = <<>>

SharedTerms(vec, text) == Range(Analyze(text)) \cap Range(vec.vocabulary)

\* C13: on a built index a query that shares no vocabulary term with the
\* chapters indexed does not make search fail: for top_k >= 1 it returns
\* results, and every result it returns has similarity score exactly 0.
C13_ZeroOverlap ==
    (/\ last.op = "search"
     /\ Built(index)
     /\ SharedTerms(index.vectorizer, last.query) = {})
        => /\ last.top_k >= 1 => last.ret # <<>>
           /\ \A p \in DOMAIN last.ret : last.ret[p].similarity_score = 0

C13_Witness ==
    /\ last.op = "search"
    /\ Built(index)
    /\ last.query = <<"gravity">>
    /\ SharedTerms(index.vectorizer, last.query) = {}
    /\ Len(last.ret) = 2
    /\ last.ret[1].similarity_score = 0
    /\ last.ret[2].similarity_score = 0

\* ---------------------------------------------------------------------
\* document i of the texts shares a vocabulary term with the query
Shares(query_text, document_texts, i) ==
    Range(Analyze(query_text)) \cap Range(Analyze(document_texts[i]))
        \cap Range(Fit(document_texts).vocabulary) # {}

\* C14: in search_similar_texts a document that shares a vocabulary term with
\* the query scores above 0 and a document that shares none scores 0, so the
\* former scores strictly higher; in the results every document that shares
\* a term stands before every document that shares none, and a document that
\* shares none is returned only when all those that share one are.
C14_SharedTermsFirst ==
    (last.op = "search_similar_texts" /\ last.ids = "None") =>
        LET texts == ChapterTexts(index)
            sims == SimilarSims(last.query, texts)
            Sh(i) == Shares(last.query, texts, i)
            Doc(p) == last.ret[p][1] + 1
        IN /\ \A i \in DOMAIN texts :
                 IF Sh(i) THEN sims[i] > 0 ELSE sims[i] = 0
           /\ \A i, j \in DOMAIN texts :
                 (Sh(i) /\ ~Sh(j)) => sims[i] > sims[j]
           /\ \A p, r \in DOMAIN last.ret :
                 (Sh(Doc(p)) /\ ~Sh(Doc(r))) =>
                     (p < r /\ last.ret[p][2] > last.ret[r][2])
           /\ (\E r \in DOMAIN last.ret : ~Sh(Doc(r))) =>
                 \A i \in DOMAIN texts :
                    Sh(i) => \E p \in DOMAIN last.ret : Doc(p) = i

\* a question that shares a term with the second document only: the second
\* document is returned first, the first (which has terms of its own) after it
C14_Witness ==
    /\ last.op = "search_similar_texts"
    /\ last.ids = "None"
    /\ last.query = <<"Plants">>
    /\ ChapterTexts(index) = << <<"water">>, <<"Plants", "the", "water">> >>
    /\ Len(last.ret) = 2
    /\ last.ret[1][1] = 1
    /\ last.ret[1][2] > 0
    /\ last.ret[2][1] = 0
    /\ last.ret[2][2] = 0

\* ---------------------------------------------------------------------
\* a search for the verbatim text of a chapter, on an index built from the
\* chapters it holds, no two of which have the same text
SelfSearch ==
    /\ last.op = "search"
    /\ last.top_k >= 1
    /\ Built(index)
    /\ Len(index.chapter_embeddings) = Len(index.chapters)
    /\ \A i, j \in DOMAIN index.chapters :
          i # j => index.chapters[i].text # index.chapters[j].text
    /\ \E i \in DOMAIN index.chapters : index.chapters[i].text = last.query

\* C15 (as claimed): the chapter whose text is the query is the first result
\* and no result scores higher.
C15_SelfFirst ==
    SelfSearch =>
        /\ last.ret # <<>>
        /\ last.ret[1].chapter_text = last.query
        /\ \A p \in DOMAIN last.ret :
              last.ret[1].similarity_score >= last.ret[p].similarity_score

\* C15 (amended): the chapter whose text is the query scores at least as high
\* as every other chapter, the first result has that score, and the chapter
\* is the first result when no other chapter scores the same.
C15_SelfScoreMaximal ==
    SelfSearch =>
        LET sims == Similarities(index, last.query)
            i == CHOOSE c \in DOMAIN index.chapters :
                    index.chapters[c].text = last.query
        IN /\ \A j \in DOMAIN sims : sims[i] >= sims[j]
           /\ last.ret # <<>>
           /\ last.ret[1].similarity_score = sims[i]
           /\ (\A j \in DOMAIN sims : j # i => sims[j] < sims[i])
                 => /\ last.ret[1].chapter_text = last.query
                    /\ last.ret[1].chapter_name = index.chapters[i].name

\* the second chapter of the corpus is searched by its text and comes first
C15_Witness ==
    /\ SelfSearch
    /\ Len(index.chapters) = 2
    /\ index.chapters[2].text = last.query
    /\ last.ret[1].chapter_text = last.query
    /\ Len(last.ret) = 2
    /\ last.ret[1].similarity_score > last.ret[2].similarity_score
    /\ last.ret[2].similarity_score > 0

\* ---------------------------------------------------------------------
\* index_textbook has returned for a PDF that could be read, under a policy
Indexed(chapter_detection) ==
    /\ last.op = "index_textbook"
    /\ last.chapter_detection = chapter_detection
    /\ last.path \in DOMAIN files

\* the text of pages from..to of a PDF, in order
PagesText(pdf, from, to) ==
    LET texts == SubSeq(pdf, from, to) IN Flatten(texts, Len(texts))

\* C16: under 'auto', n pages give ceil(n/5) chapters; chapter k holds pages
\* 5(k-1)+1 .. min(5k, n) in order and is named "Section k (Pages
\* first-last)"; every page is in exactly one chapter and only the last
\* chapter may hold fewer than 5 pages.
C16_AutoWindows ==
    Indexed("auto") =>
        LET pdf == files[last.path]
            n == Len(pdf)
            ch == index.chapters
            First(k) == 5 * (k - 1) + 1
            Last(k) == Min(5 * k, n)
        IN /\ 5 * Len(ch) >= n
           /\ 5 * (Len(ch) - 1) < n
           /\ \A k \in DOMAIN ch :
                 /\ ch[k].name = [format |-> "Section {} (Pages {}-{})",
                                  number |-> k, first |-> First(k),
                                  last |-> Last(k)]
                 /\ ch[k].text = PagesText(pdf, First(k), Last(k))
                 /\ k < Len(ch) => Last(k) - First(k) + 1 = 5
                 /\ Last(k) >= First(k)
           /\ \A pg \in 1..n :
                 Cardinality({k \in DOMAIN ch :
                                 First(k) <= pg /\ pg <= Last(k)}) = 1

\* eleven pages: two full sections and a third with the last page alone
C16_Witness ==
    /\ Indexed("auto")
    /\ Len(files[last.path]) = 11
    /\ Len(index.chapters) = 3
    /\ index.chapters[3].name.first = 11
    /\ index.chapters[3].name.last = 11
    /\ index.chapters[3].text = files[last.path][11]
    /\ Built(index)

\* C17: under 'page', n pages give n chapters in page order, the i-th named
\* "Page i" and holding the text of page i.
C17_PagePolicy ==
    Indexed("page") =>
        LET pdf == files[last.path]
        IN /\ Len(index.chapters) = Len(pdf)
           /\ \A i \in DOMAIN index.chapters :
                 /\ index.chapters[i].name =
                        [format |-> "Page {}", number |-> i]
                 /\ index.chapters[i].text = pdf[i]

C17_Witness ==
    /\ Indexed("page")
    /\ Len(files[last.path]) = 11
    /\ Len(index.chapters) = 11
    /\ index.chapters[11].name.number = 11
    /\ index.chapters[2].text = <<"leaf">>
    /\ Built(index)

\* C18: 'heading' gives the chapters 'page' gives: the same names and texts
\* in the same order (and the same index built from them).
C18_HeadingIsPage ==
    Indexed("heading") =>
        LET paged == index_textbook(files, last.path, index.textbook_id,
                                    "page")
        IN /\ ChapterNames(index) = ChapterNames(paged)
           /\ ChapterTexts(index) = ChapterTexts(paged)
           /\ index = paged

\* more pages than one window of 'auto' holds, one chapter for each
C18_Witness ==
    /\ Indexed("heading")
    /\ Len(files[last.path]) = 7
    /\ Len(index.chapters) = 7
    /\ index.chapters[7].name = PageName(7)
    /\ Built(index)

\* ---------------------------------------------------------------------
\* the first n texts of the chapters held
TextsTo(n) == SubSeq(ChapterTexts(index), 1, n)

\* a model and vectors that one build_index (over the chapters held at its
\* time, which are the first so many of the chapters held now) has produced
OneBuild(model, vectors) ==
    \E n \in 1..Len(index.chapters) :
       /\ CanFit(TextsTo(n))
       /\ FitTransform(TextsTo(n)) = [vectorizer |-> model, rows |-> vectors]

\* C19: build_index replaces the model and the vectors in two separate
\* steps.  The step that fits the new model leaves the vectors of the
\* previous build in place; only the last step stores the new vectors, and
\* the index is then the one an undisturbed build_index gives.  Outside these
\* steps a built index holds the model and the vectors of one build.  (The
\* witness is a search that has read the index between the two steps.)
C19_TwoStepReplace ==
    /\ []((writer.pc \in {"idle", "assign"} /\ Built(index))
             => OneBuild(index.vectorizer, index.chapter_embeddings))
    /\ [][ /\ (writer.pc = "fit" /\ writer'.pc = "store") =>
                 /\ index'.vectorizer = Fit(writer.chapter_texts)
                 /\ index'.chapter_embeddings = index.chapter_embeddings
                 /\ writer'.rows = FitTransform(writer.chapter_texts).rows
           /\ (writer.pc = "store" /\ writer'.pc = "idle") =>
                 /\ index'.vectorizer = index.vectorizer
                 /\ index'.chapter_embeddings = writer.rows
                 /\ index' = build_index(index).index
         ]_vars

\* a search has returned results computed from the model of the build in
\* progress and the vectors of the previous build: results that neither the
\* index before the build nor the index after it gives
C19_Witness ==
    /\ writer.pc = "store"
    /\ index.chapter_embeddings # writer.rows
    /\ Len(index.chapter_embeddings) > 0
    /\ \E r \in DOMAIN readers :
          LET me == readers[r]
              old == [index EXCEPT !.vectorizer =
                         Fit(TextsTo(Len(index.chapter_embeddings)))]
              new == build_index(index).index
          IN /\ me.pc = "returned"
             /\ me.model = index.vectorizer
             /\ me.vectors = index.chapter_embeddings
             /\ ~OneBuild(me.model, me.vectors)
             /\ OneBuild(old.vectorizer, old.chapter_embeddings)
             /\ OneBuild(new.vectorizer, new.chapter_embeddings)
             /\ me.ret # <<>>
             /\ me.ret # search(old, tieOrder, me.query, me.top_k)
             /\ me.ret # search(new, tieOrder, me.query, me.top_k)

\* C20: a search changes no field of the index, and with nothing changing
\* the index every search that runs beside other searches returns what the
\* same call returns when it runs alone.
C20_SharedReaders ==
    /\ [](\A r \in DOMAIN readers :
             readers[r].pc = "returned" =>
                readers[r].ret =
                   search(index, tieOrder, readers[r].query, readers[r].top_k))
    /\ [][index' = index]_vars

\* one search has returned two results while another search, for another
\* query, is between reading the vectors and reading the chapters
C20_Witness ==
    /\ readers["r1"].pc = "returned"
    /\ Len(readers["r1"].ret) = 2
    /\ readers["r2"].pc = "results"
    /\ readers["r2"].query # readers["r1"].query
    /\ Built(index)

\* ---------------------------------------------------------------------
\* C21: the vector get_text_embedding returns for a text (default
\* vectorizer) depends on the text only: it is the vector the call returns
\* in a process that has made no embedding or fitting call before.
C21_NoSharedModel ==
    last.op = "get_text_embedding" =>
        last.ret = get_text_embedding(last.text, NewVectorizer).ret

\* C22: through a vectorizer that has never been fitted, get_text_embedding
\* fails (returns no vector) and leaves the vectorizer unfitted.
C22_UnfittedCannotTransform ==
    [][ (last'.op = "get_text_embedding" /\ ~tfidf_vectorizer.fitted) =>
           (last'.ret = None /\ ~tfidf_vectorizer'.fitted)
      ]_vars

C24_NeverBuiltDistinct ==
    (last.op = "search" /\ Built(index)) =>
        last.ret # search(NewIndex(index.textbook_id), tieOrder,
                          last.query, last.top_k)

\* ---------------------------------------------------------------------
\* C25: the retry wrappers make at most max_retries attempts, make no attempt
\* after one that succeeded, and return the result of that attempt.
C25_BoundedRetry ==
    /\ ocr.pc = "ocr_image_with_retry" =>
          /\ Len(ocr.results) <= ocr.max_retries
          /\ \A i \in DOMAIN ocr.results :
                ocr.results[i].success =>
                    (i = Len(ocr.results) /\ ocr.ret = ocr.results[i])
    /\ ocr.pc = "extract_text_with_retry" =>
          /\ Len(ocr.results) <= ocr.max_retries
          /\ \A i \in DOMAIN ocr.results :
                ocr.results[i].ok =>
                    /\ i = Len(ocr.results)
                    /\ ocr.ret = Str(ocr.results[i].value)
                    /\ ocr.raised = None

\* two failed attempts were retried and the third, the last one allowed,
\* succeeded and was returned
C25_Witness ==
    /\ ocr.pc = "ocr_image_with_retry"
    /\ ocr.max_retries = OcrMaxRetries
    /\ Len(ocr.results) = OcrMaxRetries
    /\ ~ocr.results[1].success
    /\ ocr.results[OcrMaxRetries].success
    /\ ocr.ret = ocr.results[OcrMaxRetries]

\* ---------------------------------------------------------------------
\* C28: a failed attempt of ocr_image_with_retry that is retryable and not the
\* last is followed by a wait of 2^attempt seconds and another attempt; any
\* other failed attempt is followed by no wait and no attempt, and its result
\* is the result of the call.
C28_RetryPolicy ==
    ocr.pc = "ocr_image_with_retry" =>
        \A i \in DOMAIN ocr.results :
            LET attempt == i - 1
                result == ocr.results[i]
                waited == {w \in Range(ocr.waits) : w.attempt = attempt}
            IN ~result.success =>
                  IF is_retryable(result.error)
                        /\ attempt < ocr.max_retries - 1
                  THEN /\ waited = {[attempt |-> attempt,
                                     seconds |-> 2 ^ attempt]}
                       /\ i < Len(ocr.results)
                  ELSE /\ waited = {}
                       /\ i = Len(ocr.results)
                       /\ ocr.ret = result

\* three retryable failures in a row: waits of 1s and 2s, and the third
\* failure is returned
C28_Witness ==
    /\ ocr.pc = "ocr_image_with_retry"
    /\ Len(ocr.results) = OcrMaxRetries
    /\ \A i \in DOMAIN ocr.results :
          ~ocr.results[i].success /\ is_retryable(ocr.results[i].error)
    /\ ocr.waits = << [attempt |-> 0, seconds |-> 1],
                      [attempt |-> 1, seconds |-> 2] >>
    /\ ocr.ret = ocr.results[OcrMaxRetries]

\* ---------------------------------------------------------------------
\* C29: every attempt of ocr_image_with_retry posts the bytes the first
\* attempt posted.
C29_SameBytes ==
    ocr.pc = "ocr_image_with_retry" =>
        \A i \in DOMAIN ocr.sent : ocr.sent[i] = ocr.sent[1]

\* ---------------------------------------------------------------------
\* C26: a build_index call that returns False leaves the index as it was:
\* the model and the vectors are those of before the call.
C26_FailedBuildUnchanged ==
    [][ (last'.op = "build_index" /\ last'.ret = FALSE) =>
            /\ index'.vectorizer = index.vectorizer
            /\ index'.chapter_embeddings = index.chapter_embeddings
      ]_vars

\* ---------------------------------------------------------------------
\* the similarity of a query to one text under a fitted model
ScoreOf(vec, query, text) ==
    CosineSimilarity(Transform(vec, query), << Transform(vec, text) >>)[1]

\* C27: the name or identifier, the text and the score of a result entry are
\* those of one chapter/document: the score is the similarity of the query to
\* the text of the entry, also when chapters were added after the last build;
\* the index never holds more vectors than chapters.
C27_EntryCoherent ==
    /\ Len(index.chapter_embeddings) <= Len(index.chapters)
    /\ last.op = "search" =>
          \A p \in DOMAIN last.ret :
              \E i \in DOMAIN index.chapters :
                  /\ last.ret[p].chapter_name = index.chapters[i].name
                  /\ last.ret[p].chapter_text = index.chapters[i].text
                  /\ last.ret[p].similarity_score =
                        ScoreOf(index.vectorizer, last.query,
                                index.chapters[i].text)
    /\ last.op = "search_similar_texts" =>
          \A p \in DOMAIN last.ret :
              \E i \in DOMAIN index.chapters :
                  /\ last.ret[p][1] = DocId(IF last.ids = "None" THEN <<>>
                                            ELSE ChapterNames(index), i)
                  /\ last.ret[p][3] = index.chapters[i].text
                  /\ last.ret[p][2] =
                        ScoreOf(Fit(ChapterTexts(index)), last.query,
                                index.chapters[i].text)

\* a search returned two entries with different scores in an order that is
\* not the order of the chapters: the first entry is the second chapter
C27_Witness ==
    /\ last.op = "search"
    /\ Len(last.ret) = 2
    /\ last.ret[1].chapter_name = index.chapters[2].name
    /\ last.ret[1].chapter_name # index.chapters[1].name
    /\ last.ret[1].similarity_score > last.ret[2].similarity_score

\* ---------------------------------------------------------------------
\* C30: a textbook is marked as indexed (chapters_extracted = 1), and the
\* endpoint answers success, only when the index saved for it is built and
\* searchable.
C30_MarkedOnlyIfBuilt ==
    /\ \A textbook_id \in DOMAIN db :
          db[textbook_id].chapters_extracted = 1 =>
              /\ IndexPath(textbook_id) \in DOMAIN files
              /\ Built(load(files[IndexPath(textbook_id)]))
    /\ (last.op \in {"index_textbook", "index_textbook_uuid"}
            /\ last.success) => Built(index)

====
